---- MODULE Spec2Model ----
(***************************************************************************)
(* A model of OptimizedPrototypeClassifier (utils_groq_PT.py): the LRU     *)
(* cache, the single-item classify path with its retry loop, and           *)
(* classify_batch with its semaphore and gather; and of the two            *)
(* classify_problem_statement functions (utlis_groq.py, API.py), which     *)
(* return a success/failure envelope.                                      *)
(*                                                                         *)
(* A text is kept run-length encoded: a sequence of runs <<char, count>>,  *)
(* so that "  a " is << <<" ",2>>, <<"a",1>>, <<" ",1>> >>.                *)
(***************************************************************************)
EXTENDS Integers, Sequences, FiniteSets, TLC

(***************************************************************************)
(* Bounds of the model.                                                    *)
(***************************************************************************)
\* cache_size is drawn from 1..MaxCacheSize at construction
MaxCacheSize == 2
\* max_retries is drawn from 0 up to its default at construction
MaxRetriesDefault == 2
\* number of direct calls the caller issues in one run
MaxOps == 4
\* longest list handed to classify_batch
MaxBatch == 2
\* largest max_concurrent handed to classify_batch
MaxConcurrent == 2
\* direct calls in a run that is checked for termination
MaxFairOps == 2
\* calls in the comparison of classify_sync with classify
MaxEquivOps == 3

(***************************************************************************)
(* Texts.                                                                  *)
(***************************************************************************)
IsSpace(ch) == ch \in {" ", "\n", "\t"}

RECURSIVE lstrip(_)
lstrip(s) ==
    IF s = <<>> THEN s
    ELSE IF IsSpace(Head(s)[1]) THEN lstrip(Tail(s)) ELSE s

RECURSIVE rstrip(_)
rstrip(s) ==
    IF s = <<>> THEN s
    ELSE IF IsSpace(s[Len(s)][1]) THEN rstrip(SubSeq(s, 1, Len(s) - 1)) ELSE s

\* mutant: the text is used as it was passed in
strip_none(s) == s

\* str.strip(): leading and trailing whitespace removed
strip(s) == rstrip(lstrip(s))

\* the texts the caller passes in
TextEmpty == <<>>
TextBlank == << <<" ", 3>> >>
TextA == << <<"a", 1>> >>
TextAPadded == << <<" ", 1>>, <<"a", 1>>, <<"\n", 1>> >>
TextB == << <<"b", 1>> >>
TextC == << <<"c", 1>> >>
Descriptions == {TextEmpty, TextBlank, TextA, TextAPadded, TextB, TextC}

\* description[:n]: the first n characters of the text
RECURSIVE Slice(_, _)
Slice(s, n) ==
    IF n <= 0 \/ s = <<>> THEN <<>>
    ELSE IF Head(s)[2] <= n THEN <<Head(s)>> \o Slice(Tail(s), n - Head(s)[2])
    ELSE << <<Head(s)[1], n>> >>

\* the number of characters of the description the prompt takes
PromptMax == 2000

\* mutant: the prompt takes the whole description
Prompt_whole(description) == description

\* _PROMPT.format(description=description[:2000]), named by the text put in
\* the template
Prompt(description) == Slice(description, PromptMax)

\* texts of PromptMax characters and more, alike up to character PromptMax
TextLongA == << <<"a", PromptMax>> >>
TextLongX == << <<"a", PromptMax>>, <<"x", 1>> >>
TextLongY == << <<"a", PromptMax>>, <<"y", 1>> >>
LongTexts == {TextLongA, TextLongX, TextLongY}

\* the first 16 hex digits of the md5 digest of the text, named by the text
\* it digests: md5 has no collision among the texts of the model
_hash(text) == [md5_16 |-> text]

(***************************************************************************)
(* The rubric vocabularies, as the prompt template lists them.             *)
(***************************************************************************)
X_AXIS ==
    << "Does not have grammar",
       "Does not Demonstrate Understanding Only",
       "Is not Precise and To the Point",
       "Lacks Visual Clarity",
       "Info is not Well-Structured and Is not Easy to Understand",
       "Does not have Grammar + Lacks Visual Clarity",
       "Has some Grammar",
       "Demonstrates some Understanding",
       "Is somewhat Precise and To the Point",
       "Has some Visual Clarity",
       "Info is somewhat Well-Structured and fairly Easy to Understand",
       "Has some Grammar + Has some Visual Clarity",
       "Has Very Good Grammar + Demonstrates Very Good Understanding",
       "Has Very Good Grammar + Has Clear Visual Clarity",
       "Is Precise and To the Point + Has Clear Visual Clarity",
       "Has Very Good Grammar + Demonstrates Very Good Understanding + Has Clear Visual Clarity" >>

Y_AXIS ==
    << "Clear Product/Service Description",
       "Prototype Status",
       "Unique Value Statement",
       "User Interaction Description",
       "Technical/Practical Feasibility Evidence",
       "Product Description + Prototype Status",
       "Product Description + Unique Value Statement",
       "Product Description + User Interaction Description",
       "Product Description + Technical/Practical Feasibility Evidence",
       "Prototype Status + Unique Value Statement",
       "Prototype Status + User Interaction Description",
       "Prototype Status + Technical/Practical Feasibility Evidence",
       "Unique Value Statement + User Interaction Description",
       "Unique Value Statement + Technical/Practical Feasibility Evidence",
       "User Interaction Description + Technical/Practical Feasibility Evidence",
       "Product Description + Prototype Status + Unique Value Statement",
       "Product Description + Prototype Status + User Interaction Description",
       "Product Description + Prototype Status + Technical/Practical Feasibility Evidence",
       "Product Description + Unique Value Statement + User Interaction Description",
       "Product Description + Unique Value Statement + Technical/Practical Feasibility Evidence",
       "Product Description + User Interaction Description + Technical/Practical Feasibility Evidence",
       "Prototype Status + Unique Value Statement + User Interaction Description",
       "Prototype Status + Unique Value Statement + Technical/Practical Feasibility Evidence",
       "Prototype Status + User Interaction Description + Technical/Practical Feasibility Evidence",
       "Unique Value Statement + User Interaction Description + Technical/Practical Feasibility Evidence",
       "Product Description + Prototype Status + Unique Value Statement + User Interaction Description",
       "Product Description + Prototype Status + Unique Value Statement + Technical/Practical Feasibility Evidence",
       "Product Description + Prototype Status + User Interaction Description + Technical/Practical Feasibility Evidence",
       "Product Description + Unique Value Statement + User Interaction Description + Technical/Practical Feasibility Evidence",
       "Prototype Status + Unique Value Statement + User Interaction Description + Technical/Practical Feasibility Evidence",
       "Clear Product/Service Description + Prototype Status + Unique Value Statement + User Interaction Description + Technical/Practical Feasibility Evidence" >>

\* the two replies the prompt asks for outside the numbered lists
X_EXCEPTIONS == {"Content Not Appropriate for Age Group", "Not Relevant"}
Y_EXCEPTIONS == {"Content Safety Exception", "Not Relevant"}

XVocabulary == {X_AXIS[i] : i \in 1..Len(X_AXIS)} \cup X_EXCEPTIONS
YVocabulary == {Y_AXIS[i] : i \in 1..Len(Y_AXIS)} \cup Y_EXCEPTIONS

(***************************************************************************)
(* What a model call can produce.  A JSON value is tagged with its type;   *)
(* a message content is None, "", a text that is no JSON document, or a    *)
(* JSON document (an object, given as a function from its keys, or an      *)
(* array).                                                                 *)
(***************************************************************************)
XKey == "X_Axis_Rubric_Category"
YKey == "Y_Axis_Rubric_Category"

Str(s) == [t |-> "str", s |-> s]
Num(s) == [t |-> "num", s |-> s]

NoObject == [k \in {} |-> Str("")]
JsonObject(obj) == [kind |-> "json", top |-> "object", obj |-> obj]
JsonArray == [kind |-> "json", top |-> "array", obj |-> NoObject]
ContentNone == [kind |-> "none", top |-> "-", obj |-> NoObject]
ContentEmpty == [kind |-> "empty", top |-> "-", obj |-> NoObject]
ContentNotJson == [kind |-> "text", top |-> "-", obj |-> NoObject]

PairObject(x, y) == JsonObject([k \in {XKey, YKey} |-> IF k = XKey THEN x ELSE y])

\* replies of the model to the prompt built from a description: two
\* different in-vocabulary pairs per text, so that the model may answer the
\* same prompt differently and the answers to different texts differ
StubTexts == <<TextA, TextB, TextC>>
StubIndex(description) ==
    IF \E i \in 1..Len(StubTexts) : StubTexts[i] = description
    THEN CHOOSE i \in 1..Len(StubTexts) : StubTexts[i] = description
    ELSE Len(StubTexts)
StubVariants == {0, 1}
StubPair(description, v) ==
    << Str(X_AXIS[StubIndex(description) + 3 * v]),
       Str(Y_AXIS[StubIndex(description) + 3 * v]) >>

ValidContents(description) ==
    { PairObject(StubPair(description, v)[1], StubPair(description, v)[2]) :
        v \in StubVariants }

InvalidPairContent == PairObject(Str("Pretty Good"), Str("Some Stuff"))

MalformedContents ==
    { ContentNotJson,
      JsonArray,
      JsonObject([k \in {XKey} |-> Str(X_AXIS[1])]) }

OddContents(description) ==
    { JsonObject([k \in {XKey, YKey, "confidence"} |->
                    IF k = XKey THEN StubPair(description, 0)[1]
                    ELSE IF k = YKey THEN StubPair(description, 0)[2]
                    ELSE Num("0.9")]),
      PairObject(Num("7"), StubPair(description, 0)[2]) }

EmptyContents == {ContentNone, ContentEmpty}

\* exceptions chat.completions.create raises
TransientErrors == {"APIConnectionError", "APITimeoutError"}
PermanentErrors == {"AuthenticationError", "BadRequestError"}
ApiErrors == TransientErrors \cup PermanentErrors

Returned(content) == [raises |-> "none", content |-> content]
Raised(exc) == [raises |-> exc, content |-> ContentNone]

\* the replies of the stub of a direct call
Outcomes(description) ==
    { Returned(c) : c \in ValidContents(description) \cup {InvalidPairContent}
                          \cup MalformedContents \cup OddContents(description)
                          \cup EmptyContents }
    \cup { Raised(e) : e \in ApiErrors }

\* the replies of the stub of a batch: either pair, or a text that is no JSON
BatchOutcomes(description) ==
    { Returned(c) : c \in ValidContents(description) \cup {ContentNotJson} }

(***************************************************************************)
(* The cache: an OrderedDict, kept as the sequence of its items, oldest    *)
(* first.                                                                  *)
(***************************************************************************)
NoPair == <<>>

Item(key, value) == [key |-> key, value |-> value]

CacheKeys(c) == [i \in 1..Len(c) |-> c[i].key]

\* mutant: the lookup never finds the key
CacheHas_never(c, key) == FALSE

\* key in self._cache
CacheHas(c, key) == \E i \in 1..Len(c) : c[i].key = key

CacheIndex(c, key) == CHOOSE i \in 1..Len(c) : c[i].key = key

\* self._cache[key]
CacheGet(c, key) == c[CacheIndex(c, key)].value

Without(c, i) == SubSeq(c, 1, i - 1) \o SubSeq(c, i + 1, Len(c))

\* mutant: the hit leaves the order as it is
move_to_end_noop(c, key) == c

\* self._cache.move_to_end(key)
move_to_end(c, key) ==
    Append(Without(c, CacheIndex(c, key)), c[CacheIndex(c, key)])

\* self._cache[key] = value: a key already present keeps its place
SetItem(c, key, value) ==
    IF CacheHas(c, key)
    THEN [c EXCEPT ![CacheIndex(c, key)] = Item(key, value)]
    ELSE Append(c, Item(key, value))

\* mutant: the cache is never found too long
OverCapacity_never(c, size) == FALSE

\* mutant: popitem() with last=True, the newest item goes
popitem_newest(c) == SubSeq(c, 1, Len(c) - 1)

\* self._cache.popitem(last=False)
popitem(c) == Tail(c)

\* len(self._cache) > self._cache_size
OverCapacity(c, size) == Len(c) > size

\* the cache update of _parse_response_and_update_cache
UpdateCache(c, key, value, size) ==
    IF OverCapacity(SetItem(c, key, value), size)
    THEN popitem(SetItem(c, key, value))
    ELSE SetItem(c, key, value)

(***************************************************************************)
(* _parse_response_and_update_cache: json.loads and the two subscripts.    *)
(***************************************************************************)
ParseError(content) ==
    IF content.kind # "json" THEN "JSONDecodeError"
    ELSE IF content.top # "object" THEN "TypeError"
    ELSE IF XKey \notin DOMAIN content.obj THEN "KeyError"
    ELSE IF YKey \notin DOMAIN content.obj THEN "KeyError"
    ELSE "none"

\* mutant: the y of the pair does not come from the response
ParsedPair_mixed(content) == <<content.obj[XKey], Str(Y_AXIS[1])>>

ParsedPair(content) == <<content.obj[XKey], content.obj[YKey]>>

\* "if not content": None and "" are falsy
IsEmptyContent(content) == content.kind \in {"none", "empty"}

\* what an attempt fails with, "none" when it returns a pair
AttemptError(outcome) ==
    IF outcome.raises # "none" THEN outcome.raises
    ELSE IF IsEmptyContent(outcome.content) THEN "ClassificationError"
    ELSE ParseError(outcome.content)

\* str(err) of the exception an attempt failed with: the text of the
\* exception, which for a parse failure tells the place or the key and does
\* not quote the response
ExcStr(kind) ==
    CASE kind = "JSONDecodeError" -> "Expecting value: line 1 column 1 (char 0)"
      [] kind = "TypeError" -> "list indices must be integers or slices, not str"
      [] kind = "KeyError" -> "'Y_Axis_Rubric_Category'"
      [] kind = "ClassificationError" -> "API returned an empty response."
      [] kind = "APIConnectionError" -> "Connection error."
      [] kind = "APITimeoutError" -> "Request timed out."
      [] kind = "AuthenticationError" -> "Error code: 401"
      [] kind = "BadRequestError" -> "Error code: 400"
      [] OTHER -> "None"

\* what a ClassificationError carries: its message, in parts
NoMessage == [text |-> "", attempts |-> 0, last_err |-> ""]
ExhaustedMessage(retries, last_err) ==
    [ text |-> "Classification failed after {} attempts: {}",
      attempts |-> retries, last_err |-> ExcStr(last_err) ]

\* mutant: the check for an empty description is missing
IsEmptyDescription_never(description) == FALSE

\* "if not description"
IsEmptyDescription(description) == description = <<>>

\* mutant: the loop body runs once and is not repeated
HasNextAttempt_once(attempt, retries) == attempt < 1 /\ retries >= 1

\* mutant: the loop runs once more, range(0, self.max_retries + 1)
HasNextAttempt_extra(attempt, retries) == attempt <= retries

\* range(1, self.max_retries + 1) has a further attempt
HasNextAttempt(attempt, retries) == attempt < retries

(***************************************************************************)
(* classify_problem_statement of utlis_groq.py: three attempts, and a      *)
(* success/failure envelope returned in place of an exception.             *)
(***************************************************************************)
\* max_retries = 3, a local of the function
PsMaxRetries == 3
\* len(api_key.strip()) < 10
PsMinKeyLen == 10

RECURSIVE TextLen(_)
TextLen(s) == IF s = <<>> THEN 0 ELSE Head(s)[2] + TextLen(Tail(s))

\* values of GROQ_API_KEY: unset, too short, too short once stripped, usable
KeyUnset == <<>>
KeyShort == << <<"k", 9>> >>
KeyPadded == << <<" ", 4>>, <<"k", 9>> >>
KeyGood == << <<"k", 10>> >>
ApiKeys == {KeyUnset, KeyShort, KeyPadded, KeyGood}

\* the message of an exception, word by word
MsgAuthentication == <<"Invalid", "Authentication", "credentials">>
MsgRateLimit == <<"Error", "code", "429", "rate_limit", "exceeded">>
MsgConnection == <<"Connection", "error">>
MsgTimeout == <<"Request", "timed", "out">>
PsMessages == {MsgAuthentication, MsgRateLimit, MsgConnection, MsgTimeout}

\* str.lower() of a word
Lower(word) ==
    CASE word = "Invalid" -> "invalid"
      [] word = "Authentication" -> "authentication"
      [] word = "Error" -> "error"
      [] word = "Connection" -> "connection"
      [] word = "Request" -> "request"
      [] OTHER -> word

\* mutant: the needle is looked for in error_msg itself
Contains_exact(msg, needle) == \E i \in 1..Len(msg) : msg[i] = needle

\* needle in error_msg.lower(), for a needle that is one word
Contains(msg, needle) == \E i \in 1..Len(msg) : Lower(msg[i]) = needle

\* JSON documents that are no object
JsonNumber == [kind |-> "json", top |-> "number", obj |-> NoObject]
\* an array keeps its items under their indices
JsonArrayOf(items) == [kind |-> "json", top |-> "array", obj |-> items]
JsonKeyArray ==
    JsonArrayOf([i \in {"0", "1"} |-> IF i = "0" THEN Str(XKey) ELSE Str(YKey)])

PsX == Str("Has some grammar")
PsY == Str("Contains Data Only")
PsValidContent == PairObject(PsX, PsY)
PsExtraKeyContent ==
    JsonObject([k \in {XKey, YKey, "confidence"} |->
                  IF k = XKey THEN PsX ELSE IF k = YKey THEN PsY ELSE Num("0.9")])
PsNumberValueContent == PairObject(Num("7"), PsY)
PsMissingKeyContent == JsonObject([k \in {XKey} |-> PsX])

PsUnparseable ==
    {ContentNotJson, JsonNumber, JsonArray, JsonKeyArray, PsMissingKeyContent}
PsContents ==
    EmptyContents \cup PsUnparseable
        \cup {PsValidContent, PsExtraKeyContent, PsNumberValueContent}

\* what chat.completions.create gives: a response with a choice, a response
\* with no choice, or an exception
PsReturned(content) == [raises |-> <<>>, choices |-> TRUE, content |-> content]
PsNoChoices == [raises |-> <<>>, choices |-> FALSE, content |-> ContentNone]
PsRaised(msg) == [raises |-> msg, choices |-> FALSE, content |-> ContentNone]
PsOutcomes ==
    {PsReturned(c) : c \in PsContents} \cup {PsNoChoices}
        \cup {PsRaised(m) : m \in PsMessages}

\* the dicts the function returns, and None
Success(data) == [success |-> TRUE, data |-> data]
Failure(error, detail) == [success |-> FALSE, error |-> error, detail |-> detail]
FailureRaw(error, raw) ==
    [success |-> FALSE, error |-> error, detail |-> <<>>, raw_response |-> raw]
PsNone == [none |-> TRUE]

\* "key in parsed_json": a key of a dict, an element of a list; a number
\* has no "in"
HasKey(content, key) ==
    IF content.top = "object" THEN key \in DOMAIN content.obj
    ELSE \E i \in DOMAIN content.obj : content.obj[i] = Str(key)

\* _parse_classification_response
_parse_classification_response(content) ==
    IF content.kind # "json"
    THEN FailureRaw("Failed to parse JSON from response", content)
    ELSE IF content.top = "number"
    THEN FailureRaw("Error processing response", content)
    ELSE IF ~(\A key \in {XKey, YKey} : HasKey(content, key))
    THEN FailureRaw("JSON response missing required keys.", content)
    ELSE IF content.top # "object"
    THEN FailureRaw("Error processing response", content)
    ELSE Success([k \in {XKey, YKey} |-> content.obj[k]])

\* mutant: a fixed delay of one second
Pow2_fixed(n) == 1

\* 2 ** attempt
RECURSIVE Pow2(_)
Pow2(n) == IF n = 0 THEN 1 ELSE 2 * Pow2(n - 1)

\* mutant: the last attempt sleeps too and the loop runs out
PsHasRetry_always(attempt) == TRUE

\* attempt < max_retries - 1
PsHasRetry(attempt) == attempt < PsMaxRetries - 1

PsIdle ==
    [ pc |-> "idle", attempt |-> 0, ncalls |-> 0, sleeps |-> <<>>,
      replies |-> <<>>, result |-> PsNone ]

PsDone(c, result) == [c EXCEPT !.pc = "done", !.result = result]

PsSleep(c) == [c EXCEPT !.pc = "sleeping", !.sleeps = Append(@, Pow2(c.attempt))]

\* the code before the loop
PsEntered(api_key) ==
    IF api_key = KeyUnset
    THEN PsDone(PsIdle, Failure("GROQ_API_KEY not found.", <<>>))
    ELSE IF TextLen(strip(api_key)) < PsMinKeyLen
    THEN PsDone(PsIdle, Failure("API key appears to be invalid (too short).", <<>>))
    ELSE [PsIdle EXCEPT !.pc = "calling", !.ncalls = 1]

\* the body of the loop once the model call of the attempt has ended
PsAfterReply(c, outcome) ==
    IF outcome.raises # <<>>
    THEN IF Contains(outcome.raises, "authentication")
         THEN PsDone(c, Failure("Invalid API key.", <<>>))
         ELSE IF Contains(outcome.raises, "rate_limit")
         THEN PsDone(c, Failure("API rate limit exceeded.", <<>>))
         ELSE IF PsHasRetry(c.attempt)
         THEN PsSleep(c)
         ELSE PsDone(c, Failure("An unexpected error occurred", outcome.raises))
    ELSE IF ~outcome.choices \/ IsEmptyContent(outcome.content)
    THEN IF PsHasRetry(c.attempt)
         THEN PsSleep(c)
         ELSE PsDone(c, Failure("Empty response from API", <<>>))
    ELSE PsDone(c, _parse_classification_response(outcome.content))

\* the loop header after a sleep: the next attempt, or the end of the
\* function, which returns None
PsLoop(c) ==
    IF c.attempt + 1 < PsMaxRetries
    THEN [c EXCEPT !.pc = "calling", !.attempt = @ + 1, !.ncalls = @ + 1]
    ELSE PsDone(c, PsNone)

(***************************************************************************)
(* classify_problem_statement of API.py: one model call through            *)
(* groq_chat_completion, and a fallback when the reply is no JSON.         *)
(***************************************************************************)
ApiTextContent == [kind |-> "text", top |-> "-", obj |-> NoObject]
ApiScores == JsonObject([k \in {"overall_score"} |-> Num("6")])
ApiContents == EmptyContents \cup {ApiTextContent, ApiScores, JsonArray}
ApiOutcomes ==
    {PsReturned(c) : c \in ApiContents} \cup {PsRaised(m) : m \in PsMessages}

\* the dict of the fallback: fixed scores, the reply as feedback
PlaceholderData(response) ==
    [overall_score |-> Num("8.0"), feedback |-> response,
     strengths |-> Str("Good problem identification and context")]

\* groq_chat_completion: content.strip(), any exception becomes HTTPException
\* (None has no strip)
ChatRaises(outcome) ==
    IF outcome.raises # <<>> THEN outcome.raises
    ELSE IF outcome.content.kind = "none" THEN <<"AttributeError">>
    ELSE <<>>

\* json.loads(response) succeeds
LoadsOk(content) == content.kind = "json"

ApiIdle == [pc |-> "idle", reply |-> PsNoChoices, result |-> PsNone]

ApiResult(outcome) ==
    IF ChatRaises(outcome) # <<>>
    THEN Failure("Groq API error", ChatRaises(outcome))
    ELSE IF LoadsOk(outcome.content)
    THEN Success(outcome.content)
    ELSE Success(PlaceholderData(outcome.content))

(***************************************************************************)
(* State.                                                                  *)
(***************************************************************************)
VARIABLES
    cache,        \* self._cache
    cache_size,   \* self._cache_size
    max_retries,  \* self.max_retries
    calls,        \* the classify calls: slot 1 for a direct call, one slot per batch worker
    op,           \* the caller's current top-level call
    nops,         \* direct calls issued in series so far
    hist,         \* history: what the calls returned and what was evicted
    ps,           \* the running call of classify_problem_statement (utlis_groq.py)
    api,          \* the running call of classify_problem_statement (API.py)
    sync,         \* classify_sync on a copy of the classifier, to compare classify with
    wiz           \* st.session_state of one session of the wizard (main_groq.py)

classifier_vars == <<cache, cache_size, max_retries, calls, op, nops, hist>>
app_vars == <<ps, api, sync, wiz>>
vars == <<classifier_vars, app_vars>>

Slots == 1..MaxBatch

\* pc, description, attempt, last_err and result are the locals of classify;
\* permit tells whether the worker is inside "async with semaphore"; the
\* other fields record the history of the call (accepted is the content the
\* returned pair was parsed from)
Idle ==
    [ pc |-> "idle", description |-> <<>>, attempt |-> 0, result |-> NoPair,
      last_err |-> "none", err |-> "none", permit |-> FALSE,
      entry |-> "none", ncalls |-> 0, malformed_only |-> TRUE,
      prior |-> {}, was_gone |-> FALSE, evicted |-> <<>>, lra |-> <<>>,
      accepted |-> ContentNone, prompt |-> <<>>, err_msg |-> NoMessage ]

\* sem is the value of the semaphore, outcome and results what gather gives
\* the caller, order the workers in the order they ended
NoOp ==
    [ kind |-> "none", descs |-> <<>>, max_concurrent |-> 0, sem |-> 0,
      outcome |-> "none", results |-> <<>>, failed |-> 0, order |-> <<>> ]

NoHist ==
    [ returned |-> {}, recency |-> <<>>, nnew |-> 0, gone |-> {}, batches |-> 0,
      syncs |-> 0 ]

\* a key of st.session_state: absent, None, or a value
Unset == [set |-> FALSE, none |-> FALSE, value |-> <<>>]
NoneValue == [set |-> TRUE, none |-> TRUE, value |-> <<>>]
Value(v) == [set |-> TRUE, none |-> FALSE, value |-> v]

\* a new session, after the first lines of main(): step 1 and no other key;
\* a text is "" while its key is absent, a flag tells whether a key is
\* there; evaluating: the script is inside evaluate_problem_statement;
\* envelope and evaluated_for tell what the stored evaluation came from,
\* failed and redone what has happened in the session
WizInit ==
    [ step |-> 1, selected_sdgs |-> FALSE, generated_ideas |-> FALSE,
      chosen_idea |-> "", problem_statement |-> "",
      evaluation_result |-> Unset, evaluating |-> FALSE,
      market_research |-> FALSE, presentation_questions |-> FALSE,
      market_fit_feedback |-> FALSE,
      envelope |-> [none |-> TRUE], evaluated_for |-> <<>>,
      failed |-> FALSE, redone |-> FALSE ]

\* no comparison is set up; run is how classify_sync(desc) ends on a copy of
\* the classifier whose model calls give outs
SyncIdle ==
    [ pc |-> "idle", desc |-> <<>>, outs |-> <<>>,
      run |-> [ pc |-> "idle", entry |-> "none", result |-> NoPair, err |-> "none",
                last_err |-> "none", ncalls |-> 0, cache |-> <<>> ] ]

Init ==
    /\ cache = <<>>
    /\ cache_size \in 1..MaxCacheSize
    /\ max_retries \in 0..MaxRetriesDefault
    /\ calls = [w \in Slots |-> Idle]
    /\ op = NoOp
    /\ nops = 0
    /\ hist = NoHist
    /\ ps = PsIdle
    /\ api = ApiIdle
    /\ sync = SyncIdle
    /\ wiz = WizInit

InFlight(c) == c.pc \in {"new", "waiting", "calling", "sleeping"}
Ended(c) == c.pc \in {"done", "error"}

\* mutant: the tasks still running are dropped when the caller goes on
Quiet_always == TRUE

Quiet == \A w \in Slots : ~InFlight(calls[w])

KeyOf(c) == _hash(c.description)

(***************************************************************************)
(* History bookkeeping (not program state).                                *)
(***************************************************************************)
Range(s) == {s[i] : i \in 1..Len(s)}

\* the cache c has an item under key
Holds(c, key) == \E i \in 1..Len(c) : c[i].key = key

SeqWithout(s, x) ==
    IF \E i \in 1..Len(s) : s[i] = x
    THEN Without(s, CHOOSE i \in 1..Len(s) : s[i] = x)
    ELSE s

RECURSIVE RemoveAll(_, _)
RemoveAll(s, xs) ==
    IF xs = <<>> THEN s ELSE RemoveAll(SeqWithout(s, Head(xs)), Tail(xs))

\* pairs that successful classifications of this key have returned since its
\* entry was last created
ReturnedFor(h, key) == {r[2] : r \in {q \in h.returned : q[1] = key}}

\* keys of c0 that c1 no longer holds, oldest first
RECURSIVE DroppedKeys(_, _)
DroppedKeys(ks, c1) ==
    IF ks = <<>> THEN <<>>
    ELSE IF Holds(c1, Head(ks)) THEN DroppedKeys(Tail(ks), c1)
    ELSE <<Head(ks)>> \o DroppedKeys(Tail(ks), c1)

\* the keys a store of key into c0 evicted, c1 being the cache after it
Evicted(c0, key, c1) ==
    DroppedKeys(IF Holds(c0, key) THEN CacheKeys(c0)
                ELSE Append(CacheKeys(c0), key), c1)

HistHit(h, key, pair) ==
    [h EXCEPT !.returned = @ \cup {<<key, pair>>},
              !.recency = Append(SeqWithout(@, key), key)]

HistStore(h, key, pair, c0, c1) ==
    [h EXCEPT !.returned = {q \in @ : q[1] \notin Range(Evicted(c0, key, c1))}
                             \cup (IF Holds(c1, key) THEN {<<key, pair>>} ELSE {}),
              !.recency = RemoveAll(Append(SeqWithout(@, key), key), Evicted(c0, key, c1)),
              !.nnew = IF Holds(c0, key) THEN @ ELSE @ + 1,
              !.gone = (@ \ {key}) \cup Range(Evicted(c0, key, c1))]

(***************************************************************************)
(* classify: the code up to the first model call.                          *)
(***************************************************************************)
\* the loop header, and the raise after the loop
NextAttempt(c) ==
    IF HasNextAttempt(c.attempt, max_retries)
    THEN [c EXCEPT !.pc = "calling", !.attempt = @ + 1, !.ncalls = @ + 1]
    ELSE [c EXCEPT !.pc = "error", !.err = "retries_exhausted",
                   !.err_msg = ExhaustedMessage(max_retries, c.last_err)]

\* the call record after the code before the first await
Entered(desc, held) ==
    LET d == strip(desc)
        c0 == [Idle EXCEPT !.description = d, !.permit = held,
                           !.prior = ReturnedFor(hist, _hash(d)),
                           !.was_gone = _hash(d) \in hist.gone,
                           !.lra = IF hist.recency = <<>> THEN <<>>
                                   ELSE <<Head(hist.recency)>>]
    IN  IF IsEmptyDescription(d)
        THEN [c0 EXCEPT !.pc = "error", !.err = "empty_description",
                        !.entry = "rejected"]
        ELSE IF CacheHas(cache, _hash(d))
        THEN [c0 EXCEPT !.pc = "done", !.result = CacheGet(cache, _hash(d)),
                        !.entry = "hit"]
        ELSE NextAttempt([c0 EXCEPT !.entry = "miss", !.prompt = Prompt(d)])

IsHit(desc) ==
    /\ ~IsEmptyDescription(strip(desc))
    /\ CacheHas(cache, _hash(strip(desc)))

CacheAfterEnter(desc) ==
    IF IsHit(desc) THEN move_to_end(cache, _hash(strip(desc))) ELSE cache

HistAfterEnter(desc) ==
    IF IsHit(desc)
    THEN HistHit(hist, _hash(strip(desc)), CacheGet(cache, _hash(strip(desc))))
    ELSE hist

IsMalformed(outcome) ==
    outcome.raises = "none" /\ outcome.content \in MalformedContents

\* mutant: the store comes before the checks of the attempt
CacheAfterOutcome_early(c, outcome) ==
    UpdateCache(cache, KeyOf(c),
                IF AttemptError(outcome) = "none" THEN ParsedPair(outcome.content)
                ELSE NoPair,
                cache_size)

CacheAfterOutcome(c, outcome) ==
    IF AttemptError(outcome) # "none" THEN cache
    ELSE UpdateCache(cache, KeyOf(c), ParsedPair(outcome.content), cache_size)

\* the call record after the model call of an attempt has ended
AfterOutcome(c, outcome) ==
    IF AttemptError(outcome) # "none"
    THEN [c EXCEPT !.pc = "sleeping", !.last_err = AttemptError(outcome),
                   !.malformed_only = @ /\ IsMalformed(outcome)]
    ELSE [c EXCEPT !.pc = "done", !.result = ParsedPair(outcome.content),
                   !.malformed_only = FALSE,
                   !.accepted = outcome.content,
                   !.lra = IF hist.recency = <<>> THEN <<>> ELSE <<Head(hist.recency)>>,
                   !.evicted = Evicted(cache, KeyOf(c), CacheAfterOutcome(c, outcome))]

HistAfterOutcome(c, outcome) ==
    IF AttemptError(outcome) # "none" THEN hist
    ELSE HistStore(hist, KeyOf(c), ParsedPair(outcome.content), cache,
                   CacheAfterOutcome(c, outcome))

(***************************************************************************)
(* classify_batch: the semaphore and gather.                               *)
(***************************************************************************)
\* mutant: the semaphore admits every worker
SemaphoreFree_always(sem) == TRUE

\* "async with semaphore" enters without waiting
SemaphoreFree(sem) == sem > 0

\* mutant: the permit is kept when the call has ended
Release_never(c) == c

\* leaving "async with semaphore": a call that has ended gives its permit back
Release(c) == IF Ended(c) THEN [c EXCEPT !.permit = FALSE] ELSE c

\* mutant: the results come back in reverse order
GatherResults_reversed(cs, n) == [i \in 1..n |-> cs[n + 1 - i].result]

\* the list gather returns: the children's results in the order of the list
GatherResults(cs, n) == [i \in 1..n |-> cs[i].result]

\* mutant: gather(*tasks, return_exceptions=True): no error of a child is
\* raised, and the list is returned once every child has ended
OpAfter_collect(old, new, w, sem) ==
    IF op.kind # "batch" THEN op
    ELSE [op EXCEPT
            !.sem = sem,
            !.order = IF Ended(new[w]) /\ ~Ended(old[w]) THEN Append(@, w) ELSE @,
            !.outcome = IF \A v \in 1..Len(op.descs) : Ended(new[v])
                        THEN "returned" ELSE @,
            !.results = IF \A v \in 1..Len(op.descs) : Ended(new[v])
                        THEN GatherResults(new, Len(op.descs)) ELSE @]

\* the top-level call after worker w has taken a step that turned the calls
\* old into new and the semaphore into sem: gather raises the first exception
\* of a child, and returns once every child has returned
OpAfter(old, new, w, sem) ==
    IF op.kind # "batch" THEN op
    ELSE LET n == Len(op.descs)
             ended == Ended(new[w]) /\ ~Ended(old[w])
             alldone == \A v \in 1..n : new[v].pc = "done"
         IN  [op EXCEPT
                !.sem = sem,
                !.order = IF ended THEN Append(@, w) ELSE @,
                !.outcome = IF @ # "running" THEN @
                            ELSE IF ended /\ new[w].pc = "error" THEN "raised"
                            ELSE IF alldone THEN "returned"
                            ELSE @,
                !.failed = IF op.outcome = "running" /\ ended /\ new[w].pc = "error"
                           THEN w ELSE @,
                !.results = IF op.outcome = "running" /\ alldone
                            THEN GatherResults(new, n) ELSE @]

SemAfterRelease(old, new, w) ==
    IF old[w].permit /\ ~new[w].permit THEN op.sem + 1 ELSE op.sem

(***************************************************************************)
(* classify_sync: the same steps with a blocking client and time.sleep, so *)
(* that a call runs from its start to its end with no other task between.  *)
(***************************************************************************)
\* range(1, self.max_retries + 1) of classify_sync has a further attempt
SyncHasNextAttempt(attempt, retries) == attempt < retries

SyncEnd(pc, entry, result, err, last_err, ncalls, c) ==
    [ pc |-> pc, entry |-> entry, result |-> result, err |-> err,
      last_err |-> last_err, ncalls |-> ncalls, cache |-> c ]

\* the retry loop of classify_sync on cache c, outs[n] being what the n-th
\* model call gives; a call whose reply outs does not hold stays pending
RECURSIVE SyncLoop(_, _, _, _, _)
SyncLoop(c, key, outs, attempt, last_err) ==
    IF ~SyncHasNextAttempt(attempt, max_retries)
    THEN SyncEnd("error", "miss", NoPair, "retries_exhausted", last_err, attempt, c)
    ELSE IF attempt + 1 > Len(outs)
    THEN SyncEnd("calling", "miss", NoPair, "none", last_err, attempt + 1, c)
    ELSE IF AttemptError(outs[attempt + 1]) # "none"
    THEN SyncLoop(c, key, outs, attempt + 1, AttemptError(outs[attempt + 1]))
    ELSE SyncEnd("done", "miss", ParsedPair(outs[attempt + 1].content), "none",
                 last_err, attempt + 1,
                 UpdateCache(c, key, ParsedPair(outs[attempt + 1].content), cache_size))

\* classify_sync(desc) on cache c: how it ends and the cache it leaves
classify_sync(c, desc, outs) ==
    IF IsEmptyDescription(strip(desc))
    THEN SyncEnd("error", "rejected", NoPair, "empty_description", "none", 0, c)
    ELSE IF CacheHas(c, _hash(strip(desc)))
    THEN SyncEnd("done", "hit", CacheGet(c, _hash(strip(desc))), "none", "none", 0,
                 move_to_end(c, _hash(strip(desc))))
    ELSE SyncLoop(c, _hash(strip(desc)), outs, 0, "none")

(***************************************************************************)
(* The caller.                                                             *)
(***************************************************************************)
\* the caller awaits classify(desc)
Await(desc) ==
    /\ op.kind = "none"
    /\ op' = [NoOp EXCEPT !.kind = "classify", !.descs = <<desc>>]
    /\ calls' = [w \in Slots |-> IF w = 1 THEN Entered(desc, FALSE) ELSE Idle]
    /\ cache' = CacheAfterEnter(desc)
    /\ hist' = HistAfterEnter(desc)
    /\ UNCHANGED <<cache_size, max_retries, app_vars>>

\* one of a series of direct calls
Classify(desc) ==
    /\ nops < MaxOps
    /\ nops' = nops + 1
    /\ Await(desc)

\* a direct call before the batch, while the cache is still empty
ClassifyFirst(desc) ==
    /\ cache = <<>>
    /\ hist.batches = 0
    /\ UNCHANGED nops
    /\ Await(desc)

\* the awaited call has returned or raised and every task has ended: the
\* caller goes on
Return ==
    /\ op.kind # "none"
    /\ Quiet
    /\ op.kind = "batch" => op.outcome # "running"
    /\ op' = NoOp
    /\ calls' = [w \in Slots |-> Idle]
    /\ UNCHANGED <<cache, cache_size, max_retries, nops, hist, app_vars>>

\* every task gather created runs up to its first await before any reply
\* of the model is delivered
Started == \A w \in Slots : calls[w].pc # "new"

\* the awaited chat.completions.create of call w ends
\* the replies the stub may give to call w
StubOutcomes(w) ==
    IF op.kind = "batch" THEN BatchOutcomes(calls[w].prompt)
    ELSE Outcomes(calls[w].prompt)

ModelReturns(w, outcome) ==
    /\ calls' = [calls EXCEPT ![w] = Release(AfterOutcome(@, outcome))]
    /\ cache' = CacheAfterOutcome(calls[w], outcome)
    /\ hist' = HistAfterOutcome(calls[w], outcome)
    /\ op' = OpAfter(calls, calls', w, SemAfterRelease(calls, calls', w))
    /\ UNCHANGED <<cache_size, max_retries, nops, app_vars>>

\* asyncio.sleep(1) of call w ends: the next attempt, or the final raise
BackoffEnds(w) ==
    /\ Started
    /\ calls[w].pc = "sleeping"
    /\ calls' = [calls EXCEPT ![w] = Release(NextAttempt(@))]
    /\ op' = OpAfter(calls, calls', w, SemAfterRelease(calls, calls', w))
    /\ UNCHANGED <<cache, cache_size, max_retries, nops, hist, app_vars>>

BatchTexts == {TextEmpty, TextA, TextB}
WarmTexts == {TextAPadded}
Batches == UNION {[1..n -> BatchTexts] : n \in 1..MaxBatch}

\* the caller awaits classify_batch(descs, max_concurrent=mc), once
ClassifyBatch(descs, mc) ==
    /\ op.kind = "none"
    /\ hist.batches = 0
    /\ hist' = [hist EXCEPT !.batches = 1]
    /\ op' = [NoOp EXCEPT !.kind = "batch", !.descs = descs, !.max_concurrent = mc,
                          !.sem = mc, !.outcome = "running"]
    /\ calls' = [w \in Slots |-> IF w <= Len(descs) THEN [Idle EXCEPT !.pc = "new"]
                                 ELSE Idle]
    /\ UNCHANGED <<cache, cache_size, max_retries, nops, app_vars>>

\* worker w takes a permit and runs classify up to its first await; a call
\* that ends there gives the permit back at once
Admit(w) ==
    /\ calls' = [calls EXCEPT ![w] = Release(Entered(op.descs[w], TRUE))]
    /\ cache' = CacheAfterEnter(op.descs[w])
    /\ hist' = HistAfterEnter(op.descs[w])
    /\ op' = OpAfter(calls, calls', w, IF calls'[w].permit THEN op.sem - 1 ELSE op.sem)
    /\ UNCHANGED <<cache_size, max_retries, nops, app_vars>>

\* the task of worker w starts: gather starts the tasks in list order
WorkerStart(w) ==
    /\ op.kind = "batch"
    /\ calls[w].pc = "new"
    /\ \A v \in 1..(w - 1) : calls[v].pc # "new"
    /\ IF SemaphoreFree(op.sem)
       THEN Admit(w)
       ELSE /\ calls' = [calls EXCEPT ![w].pc = "waiting"]
            /\ UNCHANGED <<cache, cache_size, max_retries, op, nops, hist, app_vars>>

\* a permit has been released: the longest-waiting worker gets it
WorkerAcquire(w) ==
    /\ op.kind = "batch"
    /\ calls[w].pc = "waiting"
    /\ \A v \in 1..(w - 1) : calls[v].pc # "waiting"
    /\ SemaphoreFree(op.sem)
    /\ Admit(w)

\* some call awaits the model, and the model replies
ModelStep ==
    /\ Started
    /\ \E w \in Slots :
          /\ calls[w].pc = "calling"
          /\ \E outcome \in StubOutcomes(w) : ModelReturns(w, outcome)

NextSeq ==
    \/ \E desc \in Descriptions : Classify(desc)
    \/ ModelStep
    \/ \E w \in Slots : BackoffEnds(w)
    \/ Return

\* the caller issues direct calls only, one after the other
SpecSeq == Init /\ [][NextSeq]_vars

NextLong ==
    \/ \E desc \in LongTexts : Classify(desc)
    \/ ModelStep
    \/ \E w \in Slots : BackoffEnds(w)
    \/ Return

\* direct calls with descriptions longer than the prompt takes
SpecLong == Init /\ [][NextLong]_vars

(***************************************************************************)
(* classify and classify_sync side by side.                                *)
(***************************************************************************)
EquivTexts == {TextBlank, TextA, TextAPadded, TextB}

\* what a model call gives in the comparison
EquivOutcomes(prompt) ==
    { Returned(c) : c \in ValidContents(prompt) }
    \cup { Returned(ContentNotJson), Returned(ContentEmpty),
           Returned(JsonObject([k \in {XKey} |-> Str(X_AXIS[1])])),
           Raised("APITimeoutError") }

\* the replies of up to n model calls
Replies(prompt, n) == UNION { [1..k -> EquivOutcomes(prompt)] : k \in 0..n }

\* classify_sync(desc) is run on a copy of the classifier, with outs as the
\* replies of its model calls, all of them used
TwinRun(desc, outs) ==
    /\ op.kind = "none"
    /\ sync.pc = "idle"
    /\ nops < MaxEquivOps
    /\ classify_sync(cache, desc, outs).pc \in {"done", "error"}
    /\ classify_sync(cache, desc, outs).ncalls = Len(outs)
    /\ sync' = [ pc |-> "ready", desc |-> desc, outs |-> outs,
                 run |-> classify_sync(cache, desc, outs) ]
    /\ UNCHANGED <<classifier_vars, ps, api, wiz>>

\* classify(desc) is awaited on the classifier itself
EquivClassify ==
    /\ sync.pc = "ready"
    /\ nops' = nops + 1
    /\ Await(sync.desc)

\* its model call gets the reply the copy's call of the same number got
EquivModelStep ==
    /\ op.kind = "classify"
    /\ sync.pc = "ready"
    /\ calls[1].pc = "calling"
    /\ calls[1].ncalls <= Len(sync.outs)
    /\ ModelReturns(1, sync.outs[calls[1].ncalls])

EquivBackoffEnds ==
    /\ op.kind = "classify"
    /\ BackoffEnds(1)

\* the caller has the pair or the error of classify
EquivReturn ==
    /\ op.kind = "classify"
    /\ Ended(calls[1])
    /\ op' = NoOp
    /\ calls' = [w \in Slots |-> Idle]
    /\ sync' = SyncIdle
    /\ UNCHANGED <<cache, cache_size, max_retries, nops, hist, ps, api, wiz>>

\* classify_sync(desc) is called on the classifier itself, between two
\* awaited calls
ClassifySync(desc, outs) ==
    /\ op.kind = "none"
    /\ sync.pc = "idle"
    /\ nops < MaxEquivOps
    /\ nops' = nops + 1
    /\ classify_sync(cache, desc, outs).pc \in {"done", "error"}
    /\ classify_sync(cache, desc, outs).ncalls = Len(outs)
    /\ cache' = classify_sync(cache, desc, outs).cache
    /\ hist' = [ ( IF classify_sync(cache, desc, outs).entry = "hit"
                   THEN HistHit(hist, _hash(strip(desc)),
                                classify_sync(cache, desc, outs).result)
                   ELSE IF classify_sync(cache, desc, outs).pc = "done"
                   THEN HistStore(hist, _hash(strip(desc)),
                                  classify_sync(cache, desc, outs).result, cache, cache')
                   ELSE hist )
                 EXCEPT !.syncs = @ + 1 ]
    /\ UNCHANGED <<cache_size, max_retries, calls, op, app_vars>>

NextEquiv ==
    \/ \E desc \in EquivTexts :
          \E outs \in Replies(Prompt(strip(desc)), max_retries) : TwinRun(desc, outs)
    \/ EquivClassify
    \/ EquivModelStep
    \/ EquivBackoffEnds
    \/ EquivReturn
    \/ \E desc \in EquivTexts :
          \E outs \in Replies(Prompt(strip(desc)), max_retries) : ClassifySync(desc, outs)

\* calls of classify, each compared with classify_sync on a copy, and calls
\* of classify_sync between them
SpecEquiv == Init /\ [][NextEquiv]_vars

SyncTexts == {TextB}

\* another task calls classify_sync(desc), once, while the batch is in flight:
\* the call blocks the event loop, so it runs from its first line to its return
\* or raise between two steps of the workers.  Its failed attempts change
\* nothing; outcome is the reply of the attempt that ends it with a pair.
ClassifySyncDuring(desc, outcome) ==
    /\ op.kind = "batch"
    /\ Started
    /\ ~Quiet
    /\ hist.syncs = 0
    /\ IF IsHit(desc)
       THEN /\ cache' = CacheAfterEnter(desc)
            /\ hist' = [HistAfterEnter(desc) EXCEPT !.syncs = @ + 1]
       ELSE /\ ~IsEmptyDescription(strip(desc))
            /\ HasNextAttempt(0, max_retries)
            /\ AttemptError(outcome) = "none"
            /\ cache' = UpdateCache(cache, _hash(strip(desc)),
                                    ParsedPair(outcome.content), cache_size)
            /\ hist' = [HistStore(hist, _hash(strip(desc)), ParsedPair(outcome.content),
                                  cache, cache') EXCEPT !.syncs = @ + 1]
    /\ UNCHANGED <<cache_size, max_retries, calls, op, nops, app_vars>>

NextBatch ==
    \/ \E desc \in WarmTexts : ClassifyFirst(desc)
    \/ \E descs \in Batches, mc \in 1..MaxConcurrent : ClassifyBatch(descs, mc)
    \/ \E w \in Slots : WorkerStart(w)
    \/ \E w \in Slots : WorkerAcquire(w)
    \/ ModelStep
    \/ \E w \in Slots : BackoffEnds(w)
    \/ Return

\* the caller issues one batch, on the new classifier or after one direct call
SpecBatch == Init /\ [][NextBatch]_vars

NextMixed ==
    \/ NextBatch
    \/ \E desc \in SyncTexts :
          \E outcome \in BatchOutcomes(strip(desc)) : ClassifySyncDuring(desc, outcome)

\* as SpecBatch, with a classify_sync call by another task during the batch
SpecMixed == Init /\ [][NextMixed]_vars

\* the task that awaits classify_batch is cancelled while gather is pending:
\* gather cancels every child that has not ended, CancelledError is thrown
\* into the child at the await it is suspended at (the start of the task,
\* the acquire of the semaphore, the model call or the sleep), "except
\* Exception" does not catch it, "async with" gives the permit back, and
\* CancelledError comes out of classify_batch
CancelBatch ==
    /\ op.kind = "batch"
    /\ op.outcome = "running"
    /\ calls' = [w \in Slots |->
                    IF InFlight(calls[w])
                    THEN [calls[w] EXCEPT !.pc = "cancelled", !.permit = FALSE]
                    ELSE calls[w]]
    /\ op' = [op EXCEPT !.outcome = "cancelled",
                        !.sem = @ + Cardinality({w \in Slots : calls[w].permit})]
    /\ UNCHANGED <<cache, cache_size, max_retries, nops, hist, app_vars>>

NextCancel ==
    \/ NextBatch
    \/ CancelBatch

\* as SpecBatch, with a caller that may cancel the batch
SpecCancel == Init /\ [][NextCancel]_vars

LastTexts == {TextC}

\* a direct call once the batch has returned or raised
ClassifyLast(desc) ==
    /\ hist.batches = 1
    /\ nops = 0
    /\ nops' = 1
    /\ Await(desc)

NextAfter ==
    \/ NextMixed
    \/ \E desc \in LastTexts : ClassifyLast(desc)

\* as SpecMixed, with one more direct call after the batch
SpecAfter == Init /\ [][NextAfter]_vars

\* the model call awaited by call w ends
ModelReplies(w) ==
    /\ Started
    /\ calls[w].pc = "calling"
    /\ \E outcome \in StubOutcomes(w) : ModelReturns(w, outcome)

\* a step of a call that awaits the model or sleeps
CallStepTaken == \E w \in Slots : ModelReplies(w) \/ BackoffEnds(w)

\* every model call returns, fails or times out, and every sleep ends: while
\* some call awaits one of these, one of them happens
CallFairness == WF_vars(CallStepTaken)

\* one of a short series of direct calls
ClassifyFair(desc) ==
    /\ nops < MaxFairOps
    /\ nops' = nops + 1
    /\ Await(desc)

NextSeqFair ==
    \/ \E desc \in Descriptions : ClassifyFair(desc)
    \/ ModelStep
    \/ \E w \in Slots : BackoffEnds(w)
    \/ Return

SpecSeqFair == Init /\ [][NextSeqFair]_vars /\ CallFairness

\* a step of a task of the batch
TaskStep ==
    \E w \in Slots :
        WorkerStart(w) \/ WorkerAcquire(w) \/ ModelReplies(w) \/ BackoffEnds(w)

\* the event loop runs a task that is ready, every model call returns, fails
\* or times out, and every sleep ends: while some task can take a step, one
\* does; the caller may stop between calls
LoopFairness == WF_vars(TaskStep)

SpecBatchFair == SpecBatch /\ LoopFairness

(***************************************************************************)
(* The callers of the two classify_problem_statement functions.            *)
(***************************************************************************)
\* classify_problem_statement(idea, problem) of utlis_groq.py is called with
\* GROQ_API_KEY set to api_key
PsCall(api_key) ==
    /\ ps.pc = "idle"
    /\ api.pc = "idle"
    /\ ps' = PsEntered(api_key)
    /\ UNCHANGED <<classifier_vars, api, sync, wiz>>

\* client.chat.completions.create of the attempt ends
PsModelStep ==
    /\ ps.pc = "calling"
    /\ \E outcome \in PsOutcomes :
          ps' = PsAfterReply([ps EXCEPT !.replies = Append(@, outcome)], outcome)
    /\ UNCHANGED <<classifier_vars, api, sync, wiz>>

\* time.sleep(2 ** attempt) ends
PsBackoffEnds ==
    /\ ps.pc = "sleeping"
    /\ ps' = PsLoop(ps)
    /\ UNCHANGED <<classifier_vars, api, sync, wiz>>

\* the caller has the returned value and goes on
PsReturn ==
    /\ ps.pc = "done"
    /\ ps' = PsIdle
    /\ UNCHANGED <<classifier_vars, api, sync, wiz>>

\* classify_problem_statement(idea, problem) of API.py is called
ApiCall ==
    /\ api.pc = "idle"
    /\ ps.pc = "idle"
    /\ api' = [api EXCEPT !.pc = "calling"]
    /\ UNCHANGED <<classifier_vars, ps, sync, wiz>>

\* the model call inside groq_chat_completion ends, and the function returns
ApiModelStep ==
    /\ api.pc = "calling"
    /\ \E outcome \in ApiOutcomes :
          api' = [pc |-> "done", reply |-> outcome, result |-> ApiResult(outcome)]
    /\ UNCHANGED <<classifier_vars, ps, sync, wiz>>

ApiReturn ==
    /\ api.pc = "done"
    /\ api' = ApiIdle
    /\ UNCHANGED <<classifier_vars, ps, sync, wiz>>

NextApp ==
    \/ \E api_key \in ApiKeys : PsCall(api_key)
    \/ PsModelStep
    \/ PsBackoffEnds
    \/ PsReturn
    \/ ApiCall
    \/ ApiModelStep
    \/ ApiReturn

\* the application calls the two classify_problem_statement functions
SpecApp == Init /\ [][NextApp]_vars

(***************************************************************************)
(* The wizard of main_groq.py: one step is a click, its handler and the    *)
(* run of the script that follows.                                         *)
(***************************************************************************)
WizIdeas == {"idea 1", "idea 2"}
WizProblems == {"problem 1", "problem 2"}

\* mutant: a failed classification is passed on as a success with a
\* placeholder evaluation
evaluate_problem_statement_placeholder(result) ==
    IF result # PsNone /\ result.success
    THEN [success |-> TRUE, evaluation |-> result.data]
    ELSE [success |-> TRUE, evaluation |-> [k \in {XKey, YKey} |-> Str("Unknown")]]

\* evaluate_problem_statement, given what classify_problem_statement
\* returned: result['success'] of None raises, which is caught
evaluate_problem_statement(result) ==
    IF result = PsNone THEN [success |-> FALSE, evaluation |-> <<>>]
    ELSE IF result.success THEN [success |-> TRUE, evaluation |-> result.data]
    ELSE [success |-> FALSE, evaluation |-> <<>>]

\* "if st.session_state.evaluation_result": the key holds a non-empty dict
Truthy(v) == v.set /\ ~v.none /\ DOMAIN v.value # {}

\* the script runs at step 4: it evaluates when the key is absent
AtStep4(w) ==
    IF w.evaluation_result.set THEN w ELSE [w EXCEPT !.evaluating = TRUE]

\* the lines after evaluate_problem_statement has returned evaluation
Evaluated(w, result) ==
    IF evaluate_problem_statement(result).success
    THEN [w EXCEPT !.evaluating = FALSE,
                   !.evaluation_result = Value(evaluate_problem_statement(result).evaluation),
                   !.envelope = result,
                   !.evaluated_for = <<w.chosen_idea, w.problem_statement>>]
    ELSE [w EXCEPT !.evaluating = FALSE,
                   !.evaluation_result = NoneValue,
                   !.failed = TRUE]

\* mutant: the button only goes back
Step4Back_keep(w) == [w EXCEPT !.step = 3]

\* "Back to Problem Statement"
Step4Back(w) ==
    [w EXCEPT !.step = 3, !.evaluation_result = Unset,
              !.envelope = [none |-> TRUE], !.evaluated_for = <<>>,
              !.redone = @ \/ Truthy(w.evaluation_result)]

\* the wizard takes a step to w, and a run at step 4 that has no evaluation
\* calls classify_problem_statement with GROQ_API_KEY as the process has it
WizGoes(w) ==
    /\ ~wiz.evaluating
    /\ ps.pc = "idle"
    /\ wiz' = w
    /\ IF w.evaluating
       THEN \E api_key \in ApiKeys : ps' = PsEntered(api_key)
       ELSE ps' = ps
    /\ UNCHANGED <<classifier_vars, api, sync>>

\* step 1: the checkboxes are set, some or none ticked
WizSelect(some) ==
    /\ wiz.step = 1
    /\ WizGoes([wiz EXCEPT !.selected_sdgs = some])

WizStep1Next ==
    /\ wiz.step = 1
    /\ wiz.selected_sdgs
    /\ WizGoes([wiz EXCEPT !.step = 2])

\* step 2: "Generate Project Ideas" stores the text or ""
WizGenerateIdeas ==
    /\ wiz.step = 2
    /\ WizGoes([wiz EXCEPT !.generated_ideas = TRUE])

WizStep2Next(idea) ==
    /\ wiz.step = 2
    /\ wiz.generated_ideas
    /\ WizGoes([wiz EXCEPT !.chosen_idea = idea, !.step = 3])

WizStep2Back ==
    /\ wiz.step = 2
    /\ WizGoes([wiz EXCEPT !.step = 1])

WizStep3Next(problem) ==
    /\ wiz.step = 3
    /\ WizGoes(AtStep4([wiz EXCEPT !.problem_statement = problem, !.step = 4]))

WizStep3Back ==
    /\ wiz.step = 3
    /\ WizGoes([wiz EXCEPT !.step = 2])

\* classify_problem_statement has returned inside evaluate_problem_statement
WizEvaluated ==
    /\ wiz.evaluating
    /\ ps.pc = "done"
    /\ wiz' = Evaluated(wiz, ps.result)
    /\ ps' = PsIdle
    /\ UNCHANGED <<classifier_vars, api, sync>>

WizStep4Back ==
    /\ wiz.step = 4
    /\ WizGoes(Step4Back(wiz))

WizStep4Next ==
    /\ wiz.step = 4
    /\ Truthy(wiz.evaluation_result)
    /\ WizGoes([wiz EXCEPT !.step = 5])

\* step 5: "Generate Market Research" stores the results when they succeed
WizResearch(ok) ==
    /\ wiz.step = 5
    /\ WizGoes([wiz EXCEPT !.market_research = @ \/ ok])

WizStep5Back ==
    /\ wiz.step = 5
    /\ WizGoes(AtStep4([wiz EXCEPT !.step = 4]))

WizStep5Next ==
    /\ wiz.step = 5
    /\ wiz.market_research
    /\ WizGoes([wiz EXCEPT !.step = 6])

\* step 6: the questions are stored when the list is not empty
WizQuestions(ok) ==
    /\ wiz.step = 6
    /\ WizGoes([wiz EXCEPT !.presentation_questions = @ \/ ok])

WizStep6Back ==
    /\ wiz.step = 6
    /\ WizGoes([wiz EXCEPT !.step = 5])

WizStep6Next ==
    /\ wiz.step = 6
    /\ wiz.presentation_questions
    /\ WizGoes([wiz EXCEPT !.step = 7])

WizFeedback ==
    /\ wiz.step = 7
    /\ WizGoes([wiz EXCEPT !.market_fit_feedback = TRUE])

WizStep7Back ==
    /\ wiz.step = 7
    /\ WizGoes([wiz EXCEPT !.step = 6])

\* "Reset All", in the sidebar that step 7 draws: every key is deleted
WizReset ==
    /\ wiz.step = 7
    /\ WizGoes(WizInit)

NextWizard ==
    \/ \E some \in BOOLEAN : WizSelect(some)
    \/ WizStep1Next
    \/ WizGenerateIdeas
    \/ \E idea \in WizIdeas : WizStep2Next(idea)
    \/ WizStep2Back
    \/ \E problem \in WizProblems : WizStep3Next(problem)
    \/ WizStep3Back
    \/ PsModelStep
    \/ PsBackoffEnds
    \/ WizEvaluated
    \/ WizStep4Back
    \/ WizStep4Next
    \/ \E ok \in BOOLEAN : WizResearch(ok)
    \/ WizStep5Back
    \/ WizStep5Next
    \/ \E ok \in BOOLEAN : WizQuestions(ok)
    \/ WizStep6Back
    \/ WizStep6Next
    \/ WizFeedback
    \/ WizStep7Back
    \/ WizReset

\* one session of the wizard
SpecWizard == Init /\ [][NextWizard]_vars

(***************************************************************************)
(* Properties.                                                             *)
(***************************************************************************)
InvalidPair == <<Str("Pretty Good"), Str("Some Stuff")>>
BlankTexts == {TextEmpty, TextBlank}
Min(a, b) == IF a < b THEN a ELSE b
Holders == {w \in Slots : calls[w].permit}

\* the pairs the model gives in reply to the prompt of a description
RepliesFor(description) ==
    { ParsedPair(o.content) :
        o \in {q \in Outcomes(description) \cup BatchOutcomes(description) :
                  AttemptError(q) = "none"} }

\* C1: a classify of a text that an earlier classify has returned a pair
\* for, its entry not evicted since, ends at once with exactly that pair and
\* without a model call.
C1_CacheHitDeterminism ==
    \A w \in Slots :
        calls[w].prior # {} =>
            /\ calls[w].pc = "done"
            /\ calls[w].ncalls = 0
            /\ calls[w].prior = {calls[w].result}

C1_Witness ==
    \E w \in Slots :
        /\ calls[w].prior # {}
        /\ calls[w].pc = "done"
        /\ calls[w].result \in calls[w].prior

\* C2: every pair a successful classify returns has its x in the X-axis
\* vocabulary and its y in the Y-axis vocabulary.
C2_VocabularyClosure ==
    \A w \in Slots :
        calls[w].pc = "done" =>
            /\ calls[w].result[1].t = "str"
            /\ calls[w].result[1].s \in XVocabulary
            /\ calls[w].result[2].t = "str"
            /\ calls[w].result[2].s \in YVocabulary

\* C3: a pair of values outside the vocabularies is never returned by
\* classify and never stored in the cache.
C3_InvalidPairRejected ==
    /\ \A w \in Slots : calls[w].pc = "done" => calls[w].result # InvalidPair
    /\ \A i \in 1..Len(cache) : cache[i].value # InvalidPair

\* C4: a classify of an uncached text whose model calls all return malformed
\* output never makes more than max_retries model calls and ends only by
\* raising ClassificationError after exactly max_retries calls.
C4_RetryExhaustion ==
    \A w \in Slots :
        (calls[w].entry = "miss" /\ calls[w].malformed_only) =>
            /\ calls[w].ncalls <= max_retries
            /\ Ended(calls[w]) =>
                  /\ calls[w].pc = "error"
                  /\ calls[w].err = "retries_exhausted"
                  /\ calls[w].ncalls = max_retries

C4_Witness ==
    \E w \in Slots :
        /\ calls[w].entry = "miss"
        /\ calls[w].malformed_only
        /\ calls[w].pc = "error"
        /\ calls[w].ncalls = MaxRetriesDefault

\* C5: classify of an empty or whitespace-only text raises at once, makes no
\* model call and leaves the cache as it was, whatever the cache holds.
C5_InputRejection ==
    [][ (op.kind = "none" /\ op'.kind = "classify" /\ op'.descs[1] \in BlankTexts) =>
            /\ cache' = cache
            /\ calls'[1].pc = "error"
            /\ calls'[1].err = "empty_description"
            /\ calls'[1].ncalls = 0 ]_vars

C5_Witness ==
    /\ op.kind = "classify"
    /\ op.descs = <<TextBlank>>
    /\ calls[1].pc = "error"
    /\ calls[1].ncalls = 0
    /\ cache # <<>>

\* C6: with direct calls issued one after the other, the cache holds
\* min(number of new keys stored, cache_size) entries, so the store of key
\* number cache_size + 1 evicts exactly one entry; an evicted entry is the
\* least recently accessed one, hits counting as accesses; and a lookup of an
\* evicted key is a miss.
C6_LruEviction ==
    /\ Len(cache) = Min(hist.nnew, cache_size)
    /\ \A k \in hist.gone : ~Holds(cache, k)
    /\ \A w \in Slots :
          /\ calls[w].evicted # <<>> => calls[w].evicted = calls[w].lra
          /\ calls[w].was_gone => calls[w].entry = "miss"

C6_Witness ==
    \E w \in Slots :
        /\ calls[w].was_gone
        /\ calls[w].entry = "miss"
        /\ hist.nnew = cache_size + 1
        /\ Len(cache) = cache_size

\* C7: the list classify_batch returns has, at every index, a pair the model
\* gave for the text at that index, in whatever order the workers ended.
C7_BatchOrder ==
    op.outcome = "returned" =>
        /\ Len(op.results) = Len(op.descs)
        /\ \A i \in 1..Len(op.descs) :
              op.results[i] \in RepliesFor(strip(op.descs[i]))

C7_Witness ==
    /\ op.outcome = "returned"
    /\ Len(op.descs) >= 2
    /\ op.order[1] # 1
    /\ calls[1].ncalls > 0
    /\ strip(op.descs[1]) # strip(op.descs[2])
    /\ op.results[1] \notin RepliesFor(strip(op.descs[2]))

\* C8: during classify_batch at most max_concurrent workers hold a permit,
\* every worker with a model call or a backoff pending holds one, and the
\* semaphore counts the permits left.
C8_BoundedConcurrency ==
    op.kind = "batch" =>
        /\ Cardinality(Holders) <= op.max_concurrent
        /\ op.sem = op.max_concurrent - Cardinality(Holders)
        /\ \A w \in Slots : calls[w].pc \in {"calling", "sleeping"} => calls[w].permit

C8_Witness ==
    /\ op.kind = "batch"
    /\ Cardinality(Holders) = op.max_concurrent
    /\ \E w \in Slots : calls[w].pc = "waiting"
    /\ \E w \in Slots : calls[w].pc = "calling"

\* C9: two workers of one batch with the same text, each of which has
\* returned without a failed attempt, have made at most one model call
\* between them.
C9_DuplicatesOneCall ==
    op.kind = "batch" =>
        \A i, j \in 1..Len(op.descs) :
            ( /\ i < j
              /\ strip(op.descs[i]) = strip(op.descs[j])
              /\ calls[i].pc = "done" /\ calls[i].last_err = "none"
              /\ calls[j].pc = "done" /\ calls[j].last_err = "none" )
            => calls[i].ncalls + calls[j].ncalls <= 1

\* C10: after an attempt has failed with a permanent error no further model
\* call is made.
C10_PermanentNotRetried ==
    \A w \in Slots :
        calls[w].last_err \in PermanentErrors => calls[w].pc # "calling"

IsEnvelope(r) ==
    /\ "success" \in DOMAIN r
    /\ r.success \in BOOLEAN
    /\ r.success => ("data" \in DOMAIN r /\ {XKey, YKey} \subseteq DOMAIN r.data)
    /\ ~r.success => "error" \in DOMAIN r

\* C13: whatever the model calls of the attempts gave, the call of
\* classify_problem_statement (utlis_groq.py) ends by returning an envelope,
\* never None.
C13_EnvelopeAlways ==
    /\ ps.pc \in {"idle", "calling", "sleeping", "done"}
    /\ ps.pc = "done" => (ps.result # PsNone /\ IsEnvelope(ps.result))

C13_Witness ==
    /\ ps.pc = "done"
    /\ ps.ncalls = PsMaxRetries
    /\ ps.replies[1].raises = MsgTimeout
    /\ ps.replies[2] = PsNoChoices
    /\ ps.replies[3] = PsReturned(JsonNumber)
    /\ ~ps.result.success

\* the reply the finished call of utlis_groq.py got from its last model call
PsLastReply == ps.replies[Len(ps.replies)]

\* C14: a call that ends on a model reply that cannot be parsed reports a
\* failure, in utlis_groq.py and in API.py alike.
C14_NoPlaceholderSuccess ==
    /\ (ps.pc = "done" /\ ps.replies # <<>> /\ PsLastReply.content \in PsUnparseable)
          => ~ps.result.success
    /\ (api.pc = "done" /\ api.reply.raises = <<>> /\ api.reply.content.kind = "text")
          => ~api.result.success

\* C15: in every state, between calls and at every suspension point of the
\* calls in flight, the cache holds at most cache_size entries.
C15_CacheBound == Len(cache) <= cache_size

C15_Witness ==
    /\ op.kind = "batch"
    /\ hist.syncs = 1
    /\ hist.nnew > cache_size
    /\ Len(cache) = cache_size
    /\ \E w \in Slots : calls[w].pc = "done" /\ calls[w].entry = "miss"
    /\ \E w \in Slots : calls[w].pc = "calling"

\* C16: no step changes the value stored under a key that stays in the
\* cache.
C16_CachedImmutable ==
    [][ \A i \in 1..Len(cache), j \in 1..Len(cache') :
            cache[i].key = cache'[j].key => cache[i].value = cache'[j].value ]_vars

\* the steps of one call: from the start to a model call, to DONE on a hit or
\* to ERROR; from a model call to DONE or to the backoff; from the backoff to
\* the next model call or to ERROR; from DONE or ERROR back to the caller
CallStep(from, to) ==
    \/ from = to
    \/ from \in {"idle", "new", "waiting"} /\ to \in {"waiting", "calling", "done", "error"}
    \/ from = "calling" /\ to \in {"done", "sleeping"}
    \/ from = "sleeping" /\ to \in {"calling", "error"}
    \/ from \in {"done", "error"} /\ to \in {"idle", "calling", "done", "error"}

\* C17: a classify call in flight ends, with a pair or with
\* ClassificationError, when every model call and every sleep ends; its
\* steps are those of the state machine; a hit ends at once with no model
\* call; a miss makes at most max_retries model calls.
C17_CallTerminates ==
    /\ \A w \in Slots : InFlight(calls[w]) ~> Ended(calls[w])
    /\ [][\A w \in Slots : CallStep(calls[w].pc, calls'[w].pc)]_vars
    /\ [](\A w \in Slots :
            /\ calls[w].entry = "hit" => (calls[w].pc = "done" /\ calls[w].ncalls = 0)
            /\ calls[w].entry = "miss" => calls[w].ncalls <= max_retries
            /\ calls[w].pc = "done" => calls[w].result # NoPair
            /\ calls[w].pc = "error" => calls[w].err # "none")

C17_Witness ==
    /\ calls[1].entry = "miss"
    /\ calls[1].pc = "done"
    /\ calls[1].last_err \in TransientErrors
    /\ calls[1].ncalls = MaxRetriesDefault

\* C18: classify_problem_statement (utlis_groq.py) returns a failure for a
\* reply that does not parse, or lacks a key, only once the three attempts
\* are used up.
C18_ParseFailureRetried ==
    ( /\ ps.pc = "done"
      /\ ps.replies # <<>>
      /\ PsLastReply.raises = <<>>
      /\ PsLastReply.content \in PsUnparseable )
    => ps.ncalls = PsMaxRetries

\* a JSON object with exactly the two category keys, each holding a string
IsStrictRecord(content) ==
    /\ content.kind = "json"
    /\ content.top = "object"
    /\ DOMAIN content.obj = {XKey, YKey}
    /\ content.obj[XKey].t = "str"
    /\ content.obj[YKey].t = "str"

\* C19: the pair a classify call returns after a model call was parsed from
\* a strict record: exactly the two keys, each with a string value.
C19_StrictRecord ==
    \A w \in Slots :
        (calls[w].pc = "done" /\ calls[w].entry = "miss")
            => IsStrictRecord(calls[w].accepted)

\* C20: the lookup at the start of a classify call leaves the cache as it is
\* on a miss; on a hit it keeps the items, puts the hit key last (most
\* recently used) and keeps the order of the other keys.
C20_LookupFrame ==
    [][ (op.kind = "none" /\ op'.kind = "classify") =>
          IF Holds(cache, _hash(strip(op'.descs[1])))
          THEN /\ calls'[1].entry = "hit"
               /\ Range(cache') = Range(cache)
               /\ Len(cache') = Len(cache)
               /\ cache'[Len(cache')].key = _hash(strip(op'.descs[1]))
               /\ SeqWithout(CacheKeys(cache'), _hash(strip(op'.descs[1])))
                     = SeqWithout(CacheKeys(cache), _hash(strip(op'.descs[1])))
          ELSE /\ calls'[1].entry \in {"miss", "rejected"}
               /\ cache' = cache ]_vars

\* a hit on the key that was the least recently used of two
C20_Witness ==
    /\ op.kind = "classify"
    /\ calls[1].entry = "hit"
    /\ Len(cache) = 2
    /\ calls[1].lra = <<KeyOf(calls[1])>>
    /\ cache[2].key = KeyOf(calls[1])

\* the keys of c0 that c1 no longer holds, and the keys c1 holds that c0
\* does not
KeysDropped(c0, c1) == {k \in Range(CacheKeys(c0)) : ~Holds(c1, k)}
KeysAdded(c0, c1) == {k \in Range(CacheKeys(c1)) : ~Holds(c0, k)}

\* C21: a step drops at most one entry of the cache; it drops one only when
\* it adds a new key to a full cache, and the entry dropped is then the
\* least recently used one, a use being a hit or a store; a step that adds
\* no key, or adds one to a cache that is not full, drops nothing.
C21_EvictsAtMostOne ==
    [][ /\ Cardinality(KeysDropped(cache, cache')) <= 1
        /\ KeysDropped(cache, cache') # {} =>
              /\ KeysAdded(cache, cache') # {}
              /\ Len(cache) = cache_size
              /\ KeysDropped(cache, cache') = {Head(hist.recency)}
        /\ (KeysAdded(cache, cache') = {} \/ Len(cache) < cache_size) =>
              KeysDropped(cache, cache') = {} ]_vars

\* C22: a step in which an attempt fails (the model call raises or times
\* out, or returns an empty body, a text that does not parse or an object
\* without one of the keys) leaves the cache as it is; and a step changes
\* what the cache holds only when a call ends with a pair parsed from a
\* reply that has both keys.
C22_FailedAttemptFrame ==
    [][ /\ \A w \in Slots :
              (calls[w].pc = "calling" /\ calls'[w].pc = "sleeping") => cache' = cache
        /\ Range(cache') # Range(cache) =>
              \E w \in Slots :
                  /\ calls[w].pc = "calling"
                  /\ calls'[w].pc = "done"
                  /\ {XKey, YKey} \subseteq DOMAIN calls'[w].accepted.obj
                  /\ \E i \in 1..Len(cache') :
                        cache'[i] = Item(KeyOf(calls'[w]), calls'[w].result) ]_vars

C22_Witness ==
    /\ calls[1].pc = "sleeping"
    /\ calls[1].last_err = "KeyError"
    /\ calls[1].attempt = 2
    /\ Len(cache) = 2

\* the x and the y of one response, for every response to the prompt of a
\* description that holds both keys
ResponsePairs(description) ==
    { <<c.obj[XKey], c.obj[YKey]>> :
        c \in ValidContents(description) \cup {InvalidPairContent}
                \cup OddContents(description) }

\* C23: every pair in the cache is the x and the y of one response to the
\* prompt of its key's text, and every pair a call returns after a model
\* call is the x and the y of the response it accepted, also with two
\* responses for one key in flight.
C23_NoPartialResults ==
    /\ \A i \in 1..Len(cache) :
          cache[i].value \in ResponsePairs(cache[i].key.md5_16)
    /\ \A w \in Slots :
          (calls[w].pc = "done" /\ calls[w].entry = "miss") =>
              calls[w].result = <<calls[w].accepted.obj[XKey], calls[w].accepted.obj[YKey]>>

\* two workers with the same text have got different responses
C23_Witness ==
    /\ op.kind = "batch"
    /\ calls[1].pc = "done" /\ calls[1].entry = "miss"
    /\ calls[2].pc = "done" /\ calls[2].entry = "miss"
    /\ calls[1].description = calls[2].description
    /\ calls[1].result # calls[2].result
    /\ \E i \in 1..Len(cache) : cache[i].key = KeyOf(calls[1])

\* what an attempt fails with on a network error, a timeout, an empty body
\* or a malformed output
RecoverableErrors ==
    TransientErrors \cup {"ClassificationError", "JSONDecodeError", "TypeError", "KeyError"}

\* C24: after attempt k < max_retries has failed with a recoverable error,
\* attempt k + 1 is made; and a later attempt that gets a reply with both
\* keys ends the call with the pair of that reply, stored in the cache.
C24_RetryRecovers ==
    /\ \A w \in Slots :
          ( /\ calls[w].pc = "sleeping"
            /\ calls[w].attempt < max_retries
            /\ calls[w].last_err \in RecoverableErrors )
          ~> (calls[w].pc = "calling" /\ calls[w].attempt >= 2)
    /\ [][ \A w \in Slots :
             /\ ( /\ calls[w].pc = "sleeping"
                  /\ calls[w].attempt < max_retries
                  /\ calls'[w].pc # "sleeping" )
                => ( /\ calls'[w].pc = "calling"
                     /\ calls'[w].attempt = calls[w].attempt + 1
                     /\ calls'[w].ncalls = calls[w].ncalls + 1 )
             /\ ( /\ calls[w].pc = "calling"
                  /\ calls[w].attempt >= 2
                  /\ calls'[w].pc = "done" )
                => ( /\ calls'[w].result \in ResponsePairs(calls[w].description)
                     /\ calls'[w].result =
                           <<calls'[w].accepted.obj[XKey], calls'[w].accepted.obj[YKey]>>
                     /\ \E i \in 1..Len(cache') :
                           cache'[i] = Item(KeyOf(calls[w]), calls'[w].result) ) ]_vars

C24_Witness ==
    /\ calls[1].pc = "done"
    /\ calls[1].attempt = 2
    /\ calls[1].last_err = "JSONDecodeError"
    /\ calls[1].result \in ResponsePairs(calls[1].description)
    /\ \E i \in 1..Len(cache) : cache[i] = Item(KeyOf(calls[1]), calls[1].result)

\* C25: a backoff delay occurs only between two attempts of a call: a call
\* that is in its delay has an attempt left to make, so that no delay
\* follows the final attempt.
C25_DelayOnlyBetween ==
    \A w \in Slots :
        calls[w].pc = "sleeping" => calls[w].attempt < max_retries

\* u is the text t with whitespace added before it, after it or both
WhitespaceRuns == {<<>>, << <<" ", 1>> >>, << <<"\n", 1>> >>, << <<"\t", 1>> >>}
Padded(t, u) ==
    /\ t # <<>>
    /\ ~IsSpace(t[1][1]) /\ ~IsSpace(t[Len(t)][1])
    /\ u # t
    /\ \E l \in WhitespaceRuns, r \in WhitespaceRuns : u = l \o t \o r

\* C26: while the entry that classify(t) stored is in the cache, classify of
\* t with surrounding whitespace ends at once as a hit: it returns the pair
\* of that entry, makes no model call and adds no entry.
C26_WhitespaceShares ==
    [][ \A t \in Descriptions, u \in Descriptions :
          ( /\ Padded(t, u)
            /\ op.kind = "none"
            /\ op'.kind = "classify"
            /\ op'.descs = <<u>>
            /\ \E i \in 1..Len(cache) : cache[i].key.md5_16 = t )
          => ( /\ calls'[1].pc = "done"
               /\ calls'[1].entry = "hit"
               /\ calls'[1].ncalls = 0
               /\ \E i \in 1..Len(cache) :
                     /\ cache[i].key.md5_16 = t
                     /\ calls'[1].result = cache[i].value
               /\ Len(cache') = Len(cache)
               /\ \A i \in 1..Len(cache') : cache'[i].key.md5_16 # u ) ]_vars

C26_Witness ==
    /\ op.kind = "classify"
    /\ op.descs = <<TextAPadded>>
    /\ calls[1].pc = "done"
    /\ calls[1].entry = "hit"
    /\ calls[1].ncalls = 0
    /\ \E i \in 1..Len(cache) :
          cache[i].key.md5_16 = TextA /\ cache[i].value = calls[1].result

\* what the long texts have in common: their first PromptMax characters
CommonStart == << <<"a", PromptMax>> >>

\* C27: the prompt of a call is made from the first 2000 characters of its
\* text and the key from the whole text: the calls for two texts that are
\* alike up to character 2000 send the same prompt, and with the entry of
\* one in the cache the classify of the other is a miss, makes a model call
\* and stores a second entry.
C27_KeyWholePromptCut ==
    /\ [](\A w \in Slots :
            (calls[w].entry = "miss" /\ calls[w].description \in LongTexts) =>
                calls[w].prompt = CommonStart)
    /\ [][ \A t \in LongTexts, u \in LongTexts :
             ( /\ t # u
               /\ op.kind = "none" /\ op'.kind = "classify" /\ op'.descs = <<u>>
               /\ \E i \in 1..Len(cache) : cache[i].key.md5_16 = t
               /\ \A i \in 1..Len(cache) : cache[i].key.md5_16 # u )
             => ( /\ calls'[1].entry = "miss"
                  /\ calls'[1].pc = "calling"
                  /\ calls'[1].ncalls = 1 ) ]_vars
    /\ [](\A i, j \in 1..Len(cache) : cache[i].key = cache[j].key => i = j)

\* the cache holds an entry for each of two texts with the same prompt
C27_Witness ==
    /\ op.kind = "classify"
    /\ op.descs = <<TextLongY>>
    /\ calls[1].pc = "done"
    /\ calls[1].entry = "miss"
    /\ calls[1].ncalls = 1
    /\ calls[1].prompt = CommonStart
    /\ Len(cache) = 2
    /\ cache[1].key.md5_16 = TextLongX
    /\ cache[2].key.md5_16 = TextLongY

\* C28: classify and classify_sync, started on the same cache with the same
\* text and given the same replies, take the same path (rejected, hit or
\* miss), make the same number of model calls, end alike (the same pair, or
\* the same error after the same last failure) and leave the same cache; so
\* that an entry stored by one is a hit for the other.
C28_SyncSameAsAsync ==
    (sync.pc = "ready" /\ op.kind = "classify") =>
        /\ calls[1].entry = sync.run.entry
        /\ calls[1].ncalls <= sync.run.ncalls
        /\ Ended(calls[1]) =>
              /\ calls[1].pc = sync.run.pc
              /\ calls[1].result = sync.run.result
              /\ calls[1].err = sync.run.err
              /\ calls[1].last_err = sync.run.last_err
              /\ calls[1].ncalls = sync.run.ncalls
              /\ cache = sync.run.cache

\* classify_sync has stored the entry of a text, and classify of the text
\* with whitespace around it is a hit, as classify_sync is on the copy
C28_Witness ==
    /\ hist.syncs = 1
    /\ nops = 2
    /\ hist.nnew = 1
    /\ op.kind = "classify"
    /\ sync.pc = "ready"
    /\ sync.run.entry = "hit"
    /\ calls[1].pc = "done"
    /\ calls[1].entry = "hit"
    /\ calls[1].result = sync.run.result

\* the workers of the batch that have raised
Failed == {w \in 1..Len(op.descs) : calls[w].pc = "error"}

\* C29: once a worker of the batch has raised, for an empty text or after its
\* last attempt, classify_batch has raised the error of the first worker to
\* fail and delivers no list, then or later, whatever pairs the other
\* workers have got or get; a list is returned only when no worker failed.
C29_FailFast ==
    /\ [](op.kind = "batch" =>
            /\ Failed # {} =>
                  /\ op.outcome = "raised"
                  /\ op.results = <<>>
                  /\ op.failed \in Failed
                  /\ \A i \in 1..Len(op.order) :
                        op.order[i] \in Failed => \E j \in 1..i : op.order[j] = op.failed
                  /\ \A i, j \in 1..Len(op.order) :
                        (op.order[i] \in Failed /\ op.order[j] = op.failed) => j <= i
            /\ op.outcome = "returned" => Failed = {})
    /\ [][ (op.outcome = "raised" /\ op'.kind = "batch") =>
              (op'.outcome = "raised" /\ op'.results = <<>> /\ op'.failed = op.failed) ]_vars

\* one worker has got its pair from the model, then the other has used up
\* its attempts
C29_Witness ==
    /\ op.kind = "batch"
    /\ op.outcome = "raised"
    /\ op.results = <<>>
    /\ Len(op.order) = 2
    /\ calls[op.order[1]].pc = "done"
    /\ calls[op.order[1]].ncalls >= 1
    /\ calls[op.order[2]].pc = "error"
    /\ calls[op.order[2]].err = "retries_exhausted"
    /\ calls[op.order[2]].ncalls >= 1

\* C30: the cancellation of a running classify_batch ends the workers that
\* have no permit yet, which make no model call then or later, and leaves
\* the workers with a model call in flight as they are, so that each of
\* them ends with its pair or its error.
C30_CancelSparesInFlight ==
    [][ /\ (op.outcome = "running" /\ op'.outcome = "cancelled") =>
              \A w \in 1..Len(op.descs) :
                  /\ calls[w].pc \in {"new", "waiting"} =>
                        (calls'[w].pc = "cancelled" /\ calls'[w].ncalls = 0)
                  /\ calls[w].pc = "calling" => calls'[w] = calls[w]
        /\ (op.outcome = "cancelled" /\ op'.kind = "batch") =>
              \A w \in 1..Len(op.descs) :
                  /\ calls[w].pc = "cancelled" => calls'[w] = calls[w]
                  /\ calls[w].pc = "calling" => calls'[w].pc \in {"calling", "done", "sleeping"}
      ]_vars

\* the messages that hold "authentication" or "rate_limit" in some case
FatalMessages == {MsgAuthentication, MsgRateLimit}

\* C31: in classify_problem_statement (utlis_groq.py) a model call that
\* raises with "authentication" or "rate_limit" in its message, in any case,
\* ends the call in that step with a failure and no further model call, on
\* any attempt; a call that raises anything else is followed by a sleep and
\* the next attempt, up to the third, which ends the call with a failure.
C31_FatalErrorsEndCall ==
    /\ [][ (ps.pc = "calling" /\ ps'.replies # ps.replies) =>
              /\ ps'.replies[Len(ps'.replies)].raises \in FatalMessages =>
                    /\ ps'.pc = "done"
                    /\ IsEnvelope(ps'.result)
                    /\ ~ps'.result.success
                    /\ ps'.ncalls = ps.ncalls
              /\ ( /\ ps'.replies[Len(ps'.replies)].raises # <<>>
                   /\ ps'.replies[Len(ps'.replies)].raises \notin FatalMessages ) =>
                    IF ps.ncalls < 3
                    THEN ps'.pc = "sleeping"
                    ELSE /\ ps'.pc = "done"
                         /\ IsEnvelope(ps'.result)
                         /\ ~ps'.result.success ]_vars
    /\ [][ (ps.pc = "sleeping" /\ ps'.pc # "sleeping") =>
              /\ ps'.pc = "calling"
              /\ ps'.ncalls = ps.ncalls + 1 ]_vars
    /\ [](ps.pc = "done" => ps.ncalls = Len(ps.replies))

C31_Witness ==
    /\ ps.pc = "done"
    /\ ps.ncalls = 2
    /\ ps.replies[1].raises = MsgConnection
    /\ ps.replies[2].raises = MsgAuthentication
    /\ ~ps.result.success

\* the model call gave no content, or raised with a message that is not fatal
PsRetryable(reply) ==
    IF reply.raises # <<>> THEN reply.raises \notin FatalMessages
    ELSE ~reply.choices \/ reply.content \in {ContentNone, ContentEmpty}

\* C32: classify_problem_statement (utlis_groq.py) makes at most 3 model
\* calls; the waits are 1 s after the first attempt and 2 s after the
\* second and none after the third; a call whose model calls all gave an
\* empty response or a retryable exception ends after exactly 3 calls with a
\* failure; and a call that got a response with content ends with what
\* _parse_classification_response makes of that content.
C32_ThreeAttempts ==
    /\ ps.ncalls <= 3
    /\ ps.pc \in {"calling", "done"} => ps.sleeps = SubSeq(<<1, 2>>, 1, ps.ncalls - 1)
    /\ ps.pc = "sleeping" => ps.sleeps = SubSeq(<<1, 2>>, 1, ps.ncalls)
    /\ ( /\ ps.pc = "done"
         /\ ps.replies # <<>>
         /\ \A i \in 1..Len(ps.replies) : PsRetryable(ps.replies[i]) )
       => ( /\ ps.ncalls = 3
            /\ Len(ps.replies) = 3
            /\ ps.sleeps = <<1, 2>>
            /\ IsEnvelope(ps.result)
            /\ ~ps.result.success )
    /\ ( /\ ps.pc = "done"
         /\ ps.replies # <<>>
         /\ PsLastReply.raises = <<>>
         /\ PsLastReply.choices
         /\ PsLastReply.content \notin {ContentNone, ContentEmpty} )
       => ps.result = _parse_classification_response(PsLastReply.content)

C32_Witness ==
    /\ ps.pc = "done"
    /\ ps.ncalls = 3
    /\ ps.replies[1] = PsReturned(ContentEmpty)
    /\ ps.replies[2] = PsRaised(MsgConnection)
    /\ ps.replies[3] = PsNoChoices
    /\ ps.sleeps = <<1, 2>>
    /\ ~ps.result.success

\* C33: a failure that _parse_classification_response returns holds the
\* text it was given under 'raw_response'; and the ClassificationError that
\* classify raises after a last attempt whose response did not parse
\* carries that response.
C33_RawTextKept ==
    /\ ( /\ ps.pc = "done"
         /\ ps.replies # <<>>
         /\ PsLastReply.raises = <<>>
         /\ PsLastReply.choices
         /\ PsLastReply.content \notin {ContentNone, ContentEmpty}
         /\ ~ps.result.success )
       => ( /\ "raw_response" \in DOMAIN ps.result
            /\ ps.result.raw_response = PsLastReply.content )
    /\ ( /\ op.kind = "classify"
         /\ sync.pc = "ready"
         /\ calls[1].pc = "error"
         /\ calls[1].err = "retries_exhausted"
         /\ calls[1].ncalls >= 1
         /\ sync.outs[calls[1].ncalls].raises = "none"
         /\ sync.outs[calls[1].ncalls].content \notin {ContentNone, ContentEmpty} )
       => ( /\ "raw" \in DOMAIN calls[1].err_msg
            /\ calls[1].err_msg.raw = sync.outs[calls[1].ncalls].content )

\* C34: in every state of a session with step >= 5 the key
\* evaluation_result is there and holds the data of a call of
\* classify_problem_statement that returned success; and from step 4 with a
\* failed evaluation the session can only go to step 3.
C34_NoAdvanceOnFailure ==
    /\ [](wiz.step >= 5 =>
            /\ wiz.evaluation_result.set
            /\ ~wiz.evaluation_result.none
            /\ IsEnvelope(wiz.envelope)
            /\ wiz.envelope.success
            /\ wiz.evaluation_result.value = wiz.envelope.data)
    /\ [][ ( /\ wiz.step = 4
             /\ ~wiz.evaluating
             /\ wiz.evaluation_result = NoneValue
             /\ wiz' # wiz )
           => (wiz'.step = 3 /\ ~wiz'.evaluation_result.set) ]_vars

\* the session has gone on to step 5 after an evaluation that failed
C34_Witness ==
    /\ wiz.step = 5
    /\ wiz.failed
    /\ wiz.envelope.success
    /\ wiz.evaluation_result.value = wiz.envelope.data

\* C35: an evaluation held in the session was computed for the idea and the
\* problem statement the session holds now; the key is absent at steps 1 to
\* 3, the step from 4 to 3 deletes it, and at step 4 the script has
\* evaluated, or is evaluating, whenever it finds the key absent.
C35_EvaluationNotStale ==
    /\ [](Truthy(wiz.evaluation_result) =>
            wiz.evaluated_for = <<wiz.chosen_idea, wiz.problem_statement>>)
    /\ [](wiz.step <= 3 => ~wiz.evaluation_result.set)
    /\ [](wiz.step = 4 => (wiz.evaluating \/ wiz.evaluation_result.set))
    /\ [][ (wiz.step = 4 /\ wiz'.step = 3) => ~wiz'.evaluation_result.set ]_vars

\* a second evaluation, for another problem statement, after the first was
\* deleted on the way back
C35_Witness ==
    /\ wiz.step = 4
    /\ wiz.redone
    /\ Truthy(wiz.evaluation_result)
    /\ wiz.problem_statement = "problem 2"
    /\ wiz.evaluated_for = <<wiz.chosen_idea, "problem 2">>

\* the texts of the comparison that are not blank, and a pair to cache
EquivNonBlank == {TextA, TextAPadded, TextB}
SomePair == <<Str(X_AXIS[1]), Str(Y_AXIS[1])>>

\* C36: with max_retries = 0, classify of a text that is not blank and not
\* cached ends with ClassificationError and no model call, and so does
\* classify_sync; and a lookup of a cached text still returns its pair with
\* no model call.
C36_ZeroRetries ==
    max_retries = 0 =>
        /\ op.kind = "classify" =>
              /\ calls[1].ncalls = 0
              /\ calls[1].entry = "miss" =>
                    /\ calls[1].pc = "error"
                    /\ calls[1].err = "retries_exhausted"
                    /\ calls[1].result = NoPair
              /\ calls[1].entry = "hit" => calls[1].pc = "done"
        /\ \A desc \in EquivNonBlank :
              /\ ~Holds(cache, [md5_16 |-> TextA]) /\ ~Holds(cache, [md5_16 |-> TextB])
                    => /\ classify_sync(cache, desc, <<>>).pc = "error"
                       /\ classify_sync(cache, desc, <<>>).err = "retries_exhausted"
                       /\ classify_sync(cache, desc, <<>>).ncalls = 0
                       /\ classify_sync(cache, desc, <<>>).cache = cache
              /\ \A t \in {TextA, TextB} :
                    Padded(t, desc) \/ t = desc =>
                        /\ classify_sync(<<Item([md5_16 |-> t], SomePair)>>, desc, <<>>).pc = "done"
                        /\ classify_sync(<<Item([md5_16 |-> t], SomePair)>>, desc, <<>>).result = SomePair
                        /\ classify_sync(<<Item([md5_16 |-> t], SomePair)>>, desc, <<>>).ncalls = 0

C36_Witness ==
    /\ max_retries = 0
    /\ op.kind = "classify"
    /\ op.descs = <<TextAPadded>>
    /\ calls[1].pc = "error"
    /\ calls[1].err = "retries_exhausted"
    /\ calls[1].ncalls = 0
    /\ sync.run.pc = "error"
    /\ sync.run.ncalls = 0
    /\ cache = <<>>

====
